---- MODULE Spec2Model ----
(***************************************************************************)
(* beman::indirect::indirect<T, Allocator>: a value-semantic owner of one  *)
(* allocator-allocated T.  The model keeps, for a small set of wrapper     *)
(* objects, the two data members (alloc, p), the heap the allocators hand  *)
(* out, and the allocate/deallocate counters of the instrumented test      *)
(* allocator.  Every public operation of the class is one action, taken    *)
(* as a whole, with the point where an exception is thrown (if any) an     *)
(* input of the action.                                                    *)
(***************************************************************************)
EXTENDS Integers, FiniteSets

\* ---------------------------------------------------------------- bounds
NumWrappers == 2      \* wrapper objects that can exist at once
NumHandles  == 3      \* distinct addresses the allocators can hand out
NumIds      == 1      \* allocator ids besides the default one
NumValues   == 2      \* distinct payload values
MaxFaults   == 1      \* exceptions thrown by T or the allocator in one run
MaxOps      == 4      \* operations in one run

\* ------------------------------------------------------ program constants
NULL == 0                       \* nullptr
DEFAULT_ALLOCATOR_ID == -1      \* id of Allocator{}
MovedFrom == -1                 \* payload value left behind by T(T&&)

Wrappers    == 1..NumWrappers
Handles     == 1..NumHandles
AllocIds    == {DEFAULT_ALLOCATOR_ID} \cup (1..NumIds)
Values      == 1..NumValues
PayloadVals == Values \cup {MovedFrom}

\* where an operation throws: nowhere, in Allocator::allocate, in T's
\* constructor, in T's destructor (of other's / of this's owned object),
\* or in T's assignment operator
Faults == {"none", "alloc", "cons", "dtor_other", "dtor_this", "assign"}

VARIABLES
    live,             \* live[w]: wrapper object w is within its lifetime
    p,                \* p[w]: the pointer member (NULL when valueless)
    alloc,            \* alloc[w]: the allocator member, by its id
    heap,             \* heap[h]: what is at address h
    num_allocated,    \* per allocator id: allocate calls that returned
    num_deallocated,  \* per allocator id: deallocate calls
    policy,           \* the allocator type's AllocatorPropagationPolicy
    nfaults,          \* exceptions thrown so far
    nops,             \* operations run so far
    dtor_threw,       \* T's destructor has thrown in this run
    last              \* the operation that ran last, and how it ended

vars == <<live, p, alloc, heap, num_allocated, num_deallocated, policy,
          nfaults, nops, dtor_threw, last>>

\* the allocator types the program is instantiated with: no propagation, or
\* propagation on exactly one of copy assignment, move assignment and swap
Policies == {"PROPAGATE_NONE", "PROPAGATE_ON_COPY", "PROPAGATE_ON_MOVE",
             "PROPAGATE_ON_SWAP"}

\* allocator_traits<Allocator>::propagate_on_container_copy_assignment::value
propagate_on_container_copy_assignment == policy = "PROPAGATE_ON_COPY"
\* allocator_traits<Allocator>::propagate_on_container_move_assignment::value
propagate_on_container_move_assignment == policy = "PROPAGATE_ON_MOVE"
\* allocator_traits<Allocator>::propagate_on_container_swap::value
propagate_on_container_swap == policy = "PROPAGATE_ON_SWAP"

FreeCell == [st |-> "free", val |-> MovedFrom, by |-> DEFAULT_ALLOCATOR_ID]

\* the mutable program state the member functions work on
M == [p |-> p, alloc |-> alloc, heap |-> heap,
      na |-> num_allocated, nd |-> num_deallocated]

Free(m) == {h \in Handles : m.heap[h].st = "free"}

\* The addresses allocate can return.  Free addresses that no wrapper points
\* at are interchangeable, so the lowest stands for them all; a free address
\* a wrapper still points at is a different case, and each one is kept.
Referenced(m, h) == \E w \in Wrappers : m.p[w] = h
Allocatable(m) ==
    LET fresh == {h \in Free(m) : ~Referenced(m, h)}
    IN  {h \in Free(m) : Referenced(m, h) \/ \A g \in fresh : h <= g}

\* --------------------------------------------- allocator_traits primitives
\* allocator_traits<Allocator>::allocate(a, 1), returning address h
Allocate(m, id, h) ==
    [m EXCEPT !.na[id] = @ + 1,
              !.heap[h] = [st |-> "raw", val |-> MovedFrom, by |-> id]]

\* allocator_traits<Allocator>::construct(a, h, v)
Construct(m, h, v) ==
    [m EXCEPT !.heap[h] = [@ EXCEPT !.st = "obj", !.val = v]]

\* allocator_traits<Allocator>::destroy(a, h); on an address that holds no
\* object (null, released) nothing is there to destroy
Destroy(m, h) ==
    IF h # NULL /\ m.heap[h].st = "obj"
    THEN [m EXCEPT !.heap[h].st = "raw"]
    ELSE m

\* allocator_traits<Allocator>::deallocate(a, h, 1): the instrumented
\* allocator counts the call whatever h is
Deallocate(m, id, h) ==
    [m EXCEPT !.nd[id] = @ + 1,
              !.heap = IF h = NULL THEN @ ELSE [@ EXCEPT ![h] = FreeCell]]

\* the values a read of *h can give: the object's value, or anything when
\* h points at storage that holds no object
Read(m, h) ==
    IF h # NULL /\ m.heap[h].st = "obj" THEN {m.heap[h].val} ELSE PayloadVals

\* T(T&&) leaves its argument moved-from
MoveOut(m, h) ==
    IF h # NULL /\ m.heap[h].st = "obj"
    THEN [m EXCEPT !.heap[h].val = MovedFrom]
    ELSE m

\* T::operator= on the object at h
AssignPayload(m, h, v) ==
    IF h # NULL /\ m.heap[h].st = "obj"
    THEN [m EXCEPT !.heap[h].val = v]
    ELSE m

\* --------------------------------------------------------- private helpers
\* allocate_and_construct without the catch block that deallocates
allocate_and_construct_NoRollback(m, id, h, v, f) ==
    IF f = "alloc" THEN [m |-> m, ok |-> FALSE, ptr |-> NULL]
    ELSE LET m1 == Allocate(m, id, h) IN
         IF f = "cons"
         THEN [m |-> m1, ok |-> FALSE, ptr |-> NULL]
         ELSE [m |-> Construct(m1, h, v), ok |-> TRUE, ptr |-> h]

\* allocate_and_construct whose catch block deallocates through a
\* default-constructed allocator
allocate_and_construct_ReleasesThroughDefault(m, id, h, v, f) ==
    IF f = "alloc" THEN [m |-> m, ok |-> FALSE, ptr |-> NULL]
    ELSE LET m1 == Allocate(m, id, h) IN
         IF f = "cons"
         THEN [m |-> Deallocate(m1, DEFAULT_ALLOCATOR_ID, h),
               ok |-> FALSE, ptr |-> NULL]
         ELSE [m |-> Construct(m1, h, v), ok |-> TRUE, ptr |-> h]

\* allocate_and_construct: [m, ok, ptr]; this->p is not updated
allocate_and_construct(m, id, h, v, f) ==
    IF f = "alloc" THEN [m |-> m, ok |-> FALSE, ptr |-> NULL]
    ELSE LET m1 == Allocate(m, id, h) IN
         IF f = "cons"
         THEN [m |-> Deallocate(m1, id, h), ok |-> FALSE, ptr |-> NULL]
         ELSE [m |-> Construct(m1, h, v), ok |-> TRUE, ptr |-> h]

\* finally::invoke() of the must_deallocate guard of wrapper w, whose lambda
\* is this->deallocate(), with the released flag stuck at false
must_deallocate_invoke_NeverReleased(g, w) ==
    [m |-> Deallocate(g.m, g.m.alloc[w], g.m.p[w]), released |-> TRUE]

\* finally::invoke() of the must_deallocate guard of wrapper w:
\* if (!released) f(); released = true;  g = [m, released]
must_deallocate_invoke(g, w) ==
    IF ~g.released
    THEN [m |-> Deallocate(g.m, g.m.alloc[w], g.m.p[w]), released |-> TRUE]
    ELSE [m |-> g.m, released |-> TRUE]

\* unchecked_destroy_and_deallocate on wrapper w: the guard is built, destroy
\* runs, and when it returns the guard is invoked; the guard's destructor
\* invokes it again on every exit path; ok = destroy did not throw
unchecked_destroy_and_deallocate(m, w, throws) ==
    LET g0 == [m |-> Destroy(m, m.p[w]), released |-> FALSE]
        g1 == IF throws THEN g0 ELSE must_deallocate_invoke(g0, w)
        g2 == must_deallocate_invoke(g1, w)
    IN  [m |-> g2.m, ok |-> ~throws]

\* checked_destroy_and_deallocate without its test of this->p
checked_destroy_and_deallocate_NoTest(m, w, throws) ==
    unchecked_destroy_and_deallocate(m, w, throws)

\* checked_destroy_and_deallocate on wrapper w
checked_destroy_and_deallocate(m, w, throws) ==
    IF m.p[w] # NULL
    THEN unchecked_destroy_and_deallocate(m, w, throws)
    ELSE [m |-> m, ok |-> TRUE]

\* valueless_after_move()
valueless_after_move(m, w) == m.p[w] = NULL

\* get_allocator()
get_allocator(m, w) == m.alloc[w]

\* select_on_container_copy_construction of the allocator: the test
\* allocator defines none, so allocator_traits returns its argument
select_on_container_copy_construction(a) == a

\* the allocator the copy constructor initializes alloc with
CopyCtorAllocator(other_alloc) == DEFAULT_ALLOCATOR_ID

\* an operation's result: the new state, how it ended, the branch it took
Res(m, out, br) == [m |-> m, out |-> out, br |-> br]

\* ------------------------------------------------- inputs of an operation
\* An operation's inputs besides its arguments: f, where it throws; h, the
\* address allocate returns; v, the value a read of *other gives; x, whether
\* a T constructor or assignment that throws has already written.  Inputs
\* that play no part on the path the code takes are pinned (h = NULL, v = 1,
\* x = FALSE), so that one behaviour of the code is one step of the model.

\* the values the read of *hsrc gives after allocate has returned h
ReadAfterAllocate(m, hsrc, h) ==
    IF hsrc = h THEN PayloadVals ELSE Read(m, hsrc)

Inputs(m, faults, allocates, hsrc, xfaults, v, h, f, x) ==
    /\ f \in faults
    /\ IF allocates /\ f # "alloc" THEN h \in Allocatable(m) ELSE h = NULL
    /\ IF hsrc # NULL /\ f \notin {"alloc", "cons"}
       THEN v \in ReadAfterAllocate(m, hsrc, h)
       ELSE v = 1
    /\ x => f \in xfaults

\* T's destructor can only throw where an object is destroyed
DtorThis(m, w) == IF m.p[w] # NULL THEN {"dtor_this"} ELSE {}

\* ------------------------------------------------------------ constructors
\* a value constructor that keeps the allocator it is given but allocates
\* through a default-constructed one
ValueCtorOp_AllocatesThroughDefault(m, w, a, v, h, f) ==
    LET m0 == [m EXCEPT !.alloc[w] = a]
        r  == allocate_and_construct(m0, DEFAULT_ALLOCATOR_ID, h, v, f)
    IN  IF r.ok THEN Res([r.m EXCEPT !.p[w] = r.ptr], "ok", "value")
        ELSE Res(r.m, "raise", "value")

\* a value constructor that default-constructs alloc whatever it is given
ValueCtorOp_DefaultAllocator(m, w, a, v, h, f) ==
    LET m0 == [m EXCEPT !.alloc[w] = DEFAULT_ALLOCATOR_ID]
        r  == allocate_and_construct(m0, DEFAULT_ALLOCATOR_ID, h, v, f)
    IN  IF r.ok THEN Res([r.m EXCEPT !.p[w] = r.ptr], "ok", "value")
        ELSE Res(r.m, "raise", "value")

\* indirect(), indirect(U&&), indirect(in_place, us...),
\* indirect(in_place, ilist, us...) and their allocator_arg forms:
\* alloc(a), p(allocate_and_construct(args)) with T(args) = v
ValueCtorOp(m, w, a, v, h, f) ==
    LET m0 == [m EXCEPT !.alloc[w] = a]
        r  == allocate_and_construct(m0, a, h, v, f)
    IN  IF r.ok THEN Res([r.m EXCEPT !.p[w] = r.ptr], "ok", "value")
        ELSE Res(r.m, "raise", "value")

ValueCtorInputs(m, h, f) ==
    Inputs(m, {"none", "alloc", "cons"}, TRUE, NULL, {}, 1, h, f, FALSE)

\* indirect(const indirect&) with a = CopyCtorAllocator(other.alloc), and
\* indirect(allocator_arg, a, const indirect&)
CopyCtorOp(m, w, o, a, v, h, f) ==
    LET m0 == [m EXCEPT !.alloc[w] = a] IN
    IF valueless_after_move(m, o)
    THEN Res([m0 EXCEPT !.p[w] = NULL], "ok", "src_valueless")
    ELSE LET r == allocate_and_construct(m0, a, h, v, f)
         IN  IF r.ok THEN Res([r.m EXCEPT !.p[w] = r.ptr], "ok", "copy")
             ELSE Res(r.m, "raise", "copy")

CopyCtorInputs(m, o, v, h, f) ==
    IF valueless_after_move(m, o)
    THEN Inputs(m, {"none"}, FALSE, NULL, {}, v, h, f, FALSE)
    ELSE Inputs(m, {"none", "alloc", "cons"}, TRUE, m.p[o], {}, v, h, f, FALSE)

\* indirect(indirect&&) that leaves other a default-constructed allocator
MoveCtorOp_ResetsSourceAllocator(m, w, o) ==
    Res([m EXCEPT !.alloc[w] = m.alloc[o], !.p[w] = m.p[o], !.p[o] = NULL,
                  !.alloc[o] = DEFAULT_ALLOCATOR_ID],
        "ok", IF m.p[o] = NULL THEN "src_valueless" ELSE "steal")

\* indirect(indirect&&) that forgets other.p = nullptr
MoveCtorOp_KeepsSource(m, w, o) ==
    Res([m EXCEPT !.alloc[w] = m.alloc[o], !.p[w] = m.p[o]],
        "ok", IF m.p[o] = NULL THEN "src_valueless" ELSE "steal")

\* indirect(indirect&&) noexcept
MoveCtorOp(m, w, o) ==
    Res([m EXCEPT !.alloc[w] = m.alloc[o], !.p[w] = m.p[o], !.p[o] = NULL],
        "ok", IF m.p[o] = NULL THEN "src_valueless" ELSE "steal")

\* indirect(allocator_arg, a, indirect&&) with the post_condition guard
\* constructed after the allocation: a throwing allocate leaves other alone
MoveCtorAllocOp_GuardAfterAllocate(m, w, o, a, v, h, f, x) ==
    LET m0 == [m EXCEPT !.alloc[w] = a] IN
    IF a = m.alloc[o]
    THEN Res([m0 EXCEPT !.p[w] = m.p[o], !.p[o] = NULL], "ok", "equal")
    ELSE IF valueless_after_move(m, o)
    THEN Res([m0 EXCEPT !.p[w] = NULL], "ok", "src_valueless")
    ELSE IF f = "alloc"
    THEN Res(m0, "raise", "unequal")
    ELSE LET m1 == [Allocate(m0, a, h) EXCEPT !.p[w] = h]
             m2 == IF f = "cons"
                   THEN Deallocate(IF x THEN MoveOut(m1, m.p[o]) ELSE m1, a, h)
                   ELSE MoveOut(Construct(m1, h, v), m.p[o])
             d  == unchecked_destroy_and_deallocate(m2, o, f = "dtor_other")
             m3 == [d.m EXCEPT !.p[o] = NULL]
         IN  IF d.ok THEN Res(m3, "ok", "unequal")
             ELSE Res(unchecked_destroy_and_deallocate(m3, o, FALSE).m,
                      "raise", "unequal")

\* indirect(allocator_arg, a, indirect&&)
MoveCtorAllocOp(m, w, o, a, v, h, f, x) ==
    LET m0 == [m EXCEPT !.alloc[w] = a] IN
    IF a = m.alloc[o]
    THEN \* Shortcut 1: taking over ownership directly
         Res([m0 EXCEPT !.p[w] = m.p[o], !.p[o] = NULL], "ok", "equal")
    ELSE IF valueless_after_move(m, o)
    THEN \* Shortcut 2: other is valueless
         Res([m0 EXCEPT !.p[w] = NULL], "ok", "src_valueless")
    ELSE IF f = "alloc"
    THEN \* allocate_ptr throws: unwinding runs post_condition
         LET d == unchecked_destroy_and_deallocate(m0, o, FALSE) IN
         Res([d.m EXCEPT !.p[o] = NULL], "raise", "unequal")
    ELSE LET m1 == [Allocate(m0, a, h) EXCEPT !.p[w] = h]
             \* construct, or catch (...) { this->deallocate(); }
             m2 == IF f = "cons"
                   THEN Deallocate(IF x THEN MoveOut(m1, m.p[o]) ELSE m1, a, h)
                   ELSE MoveOut(Construct(m1, h, v), m.p[o])
             \* post_condition.invoke()
             d  == unchecked_destroy_and_deallocate(m2, o, f = "dtor_other")
             m3 == [d.m EXCEPT !.p[o] = NULL]
         IN  IF d.ok THEN Res(m3, "ok", "unequal")
             ELSE \* invoke() left released = false: the guard's destructor
                  \* runs the lambda once more, now on other.p = nullptr
                  Res(unchecked_destroy_and_deallocate(m3, o, FALSE).m,
                      "raise", "unequal")

MoveCtorAllocInputs(m, o, a, v, h, f, x) ==
    IF a = m.alloc[o] \/ valueless_after_move(m, o)
    THEN Inputs(m, {"none"}, FALSE, NULL, {}, v, h, f, x)
    ELSE Inputs(m, {"none", "alloc", "cons", "dtor_other"}, TRUE, m.p[o],
                {"cons"}, v, h, f, x)

\* ~indirect(): noexcept, so a throwing T::~T() ends the program
DtorOp(m, w, f) ==
    LET d == checked_destroy_and_deallocate(m, w, f = "dtor_this") IN
    Res(d.m, IF d.ok THEN "ok" ELSE "terminate",
        IF m.p[w] = NULL THEN "valueless" ELSE "owning")

DtorInputs(m, w, f) ==
    Inputs(m, {"none"} \cup DtorThis(m, w), FALSE, NULL, {}, 1, NULL, f, FALSE)

\* ------------------------------------------------------------- assignment
\* operator=(const indirect&), steps 4 to 6, tearing the old owned object
\* down and replacing the allocator before the new one is built
CopyAssignNew_TeardownFirst(m, w, o, cp, v, h, f) ==
    LET id == IF cp THEN m.alloc[o] ELSE m.alloc[w]
        d  == checked_destroy_and_deallocate(m, w, f = "dtor_this")
        m1 == [d.m EXCEPT !.alloc[w] = id, !.p[w] = NULL]
        r  == allocate_and_construct(m1, id, h, v, f)
    IN  IF ~d.ok THEN Res(d.m, "raise", "new")
        ELSE IF ~r.ok THEN Res(r.m, "raise", "new")
        ELSE Res([r.m EXCEPT !.p[w] = r.ptr], "ok", "new")

\* operator=(const indirect&), steps 4 to 6, replacing the allocator after
\* the new owned object is built but before the old one is torn down
CopyAssignNew_AllocatorFirst(m, w, o, cp, v, h, f) ==
    LET id == IF cp THEN m.alloc[o] ELSE m.alloc[w]
        r  == allocate_and_construct(m, id, h, v, f)
        m1 == [r.m EXCEPT !.alloc[w] = id]
        d  == checked_destroy_and_deallocate(m1, w, f = "dtor_this")
    IN  IF ~r.ok THEN Res(r.m, "raise", "new")
        ELSE IF ~d.ok THEN Res(d.m, "raise", "new")
        ELSE Res([d.m EXCEPT !.p[w] = r.ptr], "ok", "new")

\* operator=(const indirect&), steps 4 to 6: the new owned object is built
\* first, with other's allocator if the allocator needs updating; then the
\* old one is torn down, the allocator replaced and the pointer set
CopyAssignNew(m, w, o, cp, v, h, f) ==
    LET id == IF cp THEN m.alloc[o] ELSE m.alloc[w]
        r  == allocate_and_construct(m, id, h, v, f)
        d  == checked_destroy_and_deallocate(r.m, w, f = "dtor_this")
    IN  IF ~r.ok THEN Res(r.m, "raise", "new")
        ELSE IF ~d.ok THEN Res(d.m, "raise", "new")
        ELSE Res([d.m EXCEPT !.alloc[w] = IF cp THEN m.alloc[o] ELSE @,
                             !.p[w] = r.ptr],
                 "ok", "new")

\* operator=(const indirect& other) without step 3, the assignment in place
CopyAssignOp_NoReuse(m, w, o, cp, v, h, f, x) ==
    IF w = o
    THEN Res(m, "ok", "self")
    ELSE IF valueless_after_move(m, o)
    THEN LET d == checked_destroy_and_deallocate(m, w, f = "dtor_this")
         IN  IF d.ok
             THEN Res([d.m EXCEPT !.alloc[w] = IF cp THEN m.alloc[o] ELSE @,
                                  !.p[w] = NULL],
                      "ok", "src_valueless")
             ELSE Res(d.m, "raise", "src_valueless")
    ELSE CopyAssignNew(m, w, o, cp, v, h, f)

\* operator=(const indirect& other); cp = alloc_need_update
CopyAssignOp(m, w, o, cp, v, h, f, x) ==
    IF w = o
    THEN Res(m, "ok", "self")
    ELSE IF valueless_after_move(m, o)
    THEN LET d == checked_destroy_and_deallocate(m, w, f = "dtor_this")
         IN  IF d.ok
             THEN Res([d.m EXCEPT !.alloc[w] = IF cp THEN m.alloc[o] ELSE @,
                                  !.p[w] = NULL],
                      "ok", "src_valueless")
             ELSE Res(d.m, "raise", "src_valueless")
    ELSE IF m.alloc[w] = m.alloc[o] /\ ~valueless_after_move(m, w)
    THEN \* **this = *other
         IF f = "assign"
         THEN Res(IF x THEN AssignPayload(m, m.p[w], v) ELSE m, "raise", "reuse")
         ELSE Res(AssignPayload(m, m.p[w], v), "ok", "reuse")
    ELSE CopyAssignNew(m, w, o, cp, v, h, f)

CopyAssignInputs(m, w, o, v, h, f, x) ==
    IF w = o
    THEN Inputs(m, {"none"}, FALSE, NULL, {}, v, h, f, x)
    ELSE IF valueless_after_move(m, o)
    THEN Inputs(m, {"none"} \cup DtorThis(m, w), FALSE, NULL, {}, v, h, f, x)
    ELSE IF m.alloc[w] = m.alloc[o] /\ ~valueless_after_move(m, w)
    THEN Inputs(m, {"none", "assign"}, FALSE, m.p[o], {"assign"}, v, h, f, x)
    ELSE Inputs(m, {"none", "alloc", "cons"} \cup DtorThis(m, w), TRUE, m.p[o],
                {}, v, h, f, x)

\* operator=(indirect&&), alloc == other.alloc, leaving other.p as swapped
MoveAssignEqualEnd_KeepsSource(m, o) == m

\* operator=(indirect&&), alloc == other.alloc, after the swap and the
\* teardown: other.p = nullptr
MoveAssignEqualEnd(m, o) == [m EXCEPT !.p[o] = NULL]

\* operator=(indirect&&), alloc # other.alloc, committing without the
\* allocator update
MoveAssignCommit_KeepsAllocator(m, w, o, mp, new_p) ==
    [m EXCEPT !.p[o] = NULL, !.p[w] = new_p]

\* operator=(indirect&&), alloc # other.alloc: "commit state change"
MoveAssignCommit(m, w, o, mp, new_p) ==
    [m EXCEPT !.alloc[w] = IF mp THEN m.alloc[o] ELSE @,
              !.p[o] = NULL, !.p[w] = new_p]

\* operator=(indirect&& other) without the test this == addressof(other)
MoveAssignOp_NoSelfTest(m, w, o, mp, v, h, f, x) ==
    IF valueless_after_move(m, o)
    THEN LET d == checked_destroy_and_deallocate(m, w, f = "dtor_this")
         IN  IF d.ok
             THEN Res([d.m EXCEPT !.p[w] = NULL,
                                  !.alloc[w] = IF mp THEN m.alloc[o] ELSE @],
                      "ok", "src_valueless")
             ELSE Res(d.m, "raise", "src_valueless")
    ELSE IF m.alloc[w] = m.alloc[o]
    THEN LET m1 == [m EXCEPT !.p[w] = m.p[o], !.p[o] = m.p[w]]
             d  == unchecked_destroy_and_deallocate(m1, o, f = "dtor_other")
         IN  IF d.ok THEN Res(MoveAssignEqualEnd(d.m, o), "ok", "equal")
             ELSE Res(d.m, "raise", "equal")
    ELSE LET id == IF mp THEN m.alloc[o] ELSE m.alloc[w]
             r  == allocate_and_construct(m, id, h, v, f)
             r1 == IF r.ok \/ (f = "cons" /\ x) THEN MoveOut(r.m, m.p[o]) ELSE r.m
             d1 == unchecked_destroy_and_deallocate(r1, o, f = "dtor_other")
             d2 == checked_destroy_and_deallocate(d1.m, w, f = "dtor_this")
         IN  IF ~r.ok THEN Res(r1, "raise", "unequal")
             ELSE IF ~d1.ok THEN Res(d1.m, "raise", "unequal")
             ELSE IF ~d2.ok THEN Res(d2.m, "raise", "unequal")
             ELSE Res(MoveAssignCommit(d2.m, w, o, mp, r.ptr), "ok", "unequal")

\* operator=(indirect&& other); mp = need_update
MoveAssignOp(m, w, o, mp, v, h, f, x) ==
    IF w = o
    THEN Res(m, "ok", "self")
    ELSE IF valueless_after_move(m, o)
    THEN LET d == checked_destroy_and_deallocate(m, w, f = "dtor_this")
         IN  IF d.ok
             THEN Res([d.m EXCEPT !.p[w] = NULL,
                                  !.alloc[w] = IF mp THEN m.alloc[o] ELSE @],
                      "ok", "src_valueless")
             ELSE Res(d.m, "raise", "src_valueless")
    ELSE IF m.alloc[w] = m.alloc[o]
    THEN LET m1 == [m EXCEPT !.p[w] = m.p[o], !.p[o] = m.p[w]]
             d  == unchecked_destroy_and_deallocate(m1, o, f = "dtor_other")
         IN  IF d.ok THEN Res(MoveAssignEqualEnd(d.m, o), "ok", "equal")
             ELSE Res(d.m, "raise", "equal")
    ELSE LET id == IF mp THEN m.alloc[o] ELSE m.alloc[w]
             r  == allocate_and_construct(m, id, h, v, f)
             r1 == IF r.ok \/ (f = "cons" /\ x) THEN MoveOut(r.m, m.p[o]) ELSE r.m
             d1 == unchecked_destroy_and_deallocate(r1, o, f = "dtor_other")
             d2 == checked_destroy_and_deallocate(d1.m, w, f = "dtor_this")
         IN  IF ~r.ok THEN Res(r1, "raise", "unequal")
             ELSE IF ~d1.ok THEN Res(d1.m, "raise", "unequal")
             ELSE IF ~d2.ok THEN Res(d2.m, "raise", "unequal")
             ELSE Res(MoveAssignCommit(d2.m, w, o, mp, r.ptr), "ok", "unequal")

MoveAssignInputs(m, w, o, v, h, f, x) ==
    IF w = o
    THEN Inputs(m, {"none"}, FALSE, NULL, {}, v, h, f, x)
    ELSE IF valueless_after_move(m, o)
    THEN Inputs(m, {"none"} \cup DtorThis(m, w), FALSE, NULL, {}, v, h, f, x)
    ELSE IF m.alloc[w] = m.alloc[o]
    THEN Inputs(m, {"none", "dtor_other"}, FALSE, NULL, {}, v, h, f, x)
    ELSE Inputs(m, {"none", "alloc", "cons", "dtor_other"} \cup DtorThis(m, w),
                TRUE, m.p[o], {"cons"}, v, h, f, x)

\* operator=(U&& u) with T(u) = v
ForwardAssignOp(m, w, v, h, f, x) ==
    IF valueless_after_move(m, w)
    THEN LET r == allocate_and_construct(m, m.alloc[w], h, v, f)
         IN  IF r.ok THEN Res([r.m EXCEPT !.p[w] = r.ptr], "ok", "construct")
             ELSE Res(r.m, "raise", "construct")
    ELSE IF f = "assign"
         THEN Res(IF x THEN AssignPayload(m, m.p[w], v) ELSE m, "raise", "assign")
         ELSE Res(AssignPayload(m, m.p[w], v), "ok", "assign")

ForwardAssignInputs(m, w, h, f, x) ==
    IF valueless_after_move(m, w)
    THEN Inputs(m, {"none", "alloc", "cons"}, TRUE, NULL, {}, 1, h, f, x)
    ELSE Inputs(m, {"none", "assign"}, FALSE, NULL, {"assign"}, 1, h, f, x)

\* ------------------------------------------------------------------- swap
\* swap(indirect& other) without std::swap(this->p, other.p)
SwapOp_KeepsPointers(m, w, o, sp) ==
    Res(IF sp THEN [m EXCEPT !.alloc[w] = m.alloc[o], !.alloc[o] = m.alloc[w]]
        ELSE m, "ok", "swap")

\* swap(indirect& other) without the exchange of the allocators
SwapOp_KeepsAllocators(m, w, o, sp) ==
    Res([m EXCEPT !.p[w] = m.p[o], !.p[o] = m.p[w]], "ok", "swap")

\* swap(indirect& other); sp = propagate_on_container_swap
SwapOp(m, w, o, sp) ==
    LET m1 == IF sp THEN [m EXCEPT !.alloc[w] = m.alloc[o], !.alloc[o] = m.alloc[w]]
              ELSE m
    IN  Res([m1 EXCEPT !.p[w] = m.p[o], !.p[o] = m.p[w]], "ok", "swap")

\* ----------------------------------------------------------------- access
\* operator*() & / operator->(): the caller writes v through the reference
DerefWriteOp(m, w, v) == Res(AssignPayload(m, m.p[w], v), "ok", "write")

\* ---------------------------------------------------------------- actions
\* a wrapper outside its lifetime has no members
Members(lv, f, none) == [y \in Wrappers |-> IF lv[y] THEN f[y] ELSE none]

\* the step of the program that runs operation op to its end
Commit(op, w, o, a, v, f, r, lv) ==
    /\ nops' = nops + 1
    /\ dtor_threw' = (dtor_threw \/ f \in {"dtor_other", "dtor_this"})
    /\ nfaults + (IF f = "none" THEN 0 ELSE 1) <= MaxFaults
    /\ nfaults' = nfaults + (IF f = "none" THEN 0 ELSE 1)
    /\ live' = lv
    /\ p' = Members(lv, r.m.p, NULL)
    /\ alloc' = Members(lv, r.m.alloc, DEFAULT_ALLOCATOR_ID)
    /\ heap' = r.m.heap
    /\ num_allocated' = r.m.na
    /\ num_deallocated' = r.m.nd
    /\ last' = [op |-> op, dst |-> w, src |-> o, a |-> a, v |-> v,
                fault |-> f, out |-> r.out, br |-> r.br]
    /\ UNCHANGED policy

NoWrapper == 0

\* a constructor that throws leaves no object behind
Born(w, r) == [live EXCEPT ![w] = (r.out = "ok")]

\* a function declared noexcept ends the program when an exception leaves it
NoExcept(cond, r) ==
    IF cond /\ r.out = "raise" THEN [r EXCEPT !.out = "terminate"] ELSE r

HandlesOrNull == Handles \cup {NULL}

ValueCtor ==
    \E w \in Wrappers : ~live[w] /\
    \E v \in Values, h \in HandlesOrNull, f \in Faults :
        /\ ValueCtorInputs(M, h, f)
        /\ LET r == ValueCtorOp(M, w, DEFAULT_ALLOCATOR_ID, v, h, f)
           IN  Commit("value_ctor", w, NoWrapper, DEFAULT_ALLOCATOR_ID, v, f, r,
                      Born(w, r))

ValueCtorAlloc ==
    \E w \in Wrappers : ~live[w] /\
    \E a \in AllocIds, v \in Values, h \in HandlesOrNull, f \in Faults :
        /\ ValueCtorInputs(M, h, f)
        /\ LET r == ValueCtorOp(M, w, a, v, h, f)
           IN  Commit("value_ctor_alloc", w, NoWrapper, a, v, f, r, Born(w, r))

CopyCtor ==
    \E w, o \in Wrappers : ~live[w] /\ live[o] /\
    \E v \in PayloadVals, h \in HandlesOrNull, f \in Faults :
        /\ CopyCtorInputs(M, o, v, h, f)
        /\ LET a == CopyCtorAllocator(alloc[o])
               r == CopyCtorOp(M, w, o, a, v, h, f)
           IN  Commit("copy_ctor", w, o, a, v, f, r, Born(w, r))

CopyCtorAlloc ==
    \E w, o \in Wrappers : ~live[w] /\ live[o] /\
    \E a \in AllocIds, v \in PayloadVals, h \in HandlesOrNull, f \in Faults :
        /\ CopyCtorInputs(M, o, v, h, f)
        /\ LET r == CopyCtorOp(M, w, o, a, v, h, f)
           IN  Commit("copy_ctor_alloc", w, o, a, v, f, r, Born(w, r))

MoveCtor ==
    \E w, o \in Wrappers : ~live[w] /\ live[o] /\
        LET r == MoveCtorOp(M, w, o)
        IN  Commit("move_ctor", w, o, alloc[o], 1, "none", r, Born(w, r))

MoveCtorAlloc ==
    \E w, o \in Wrappers : ~live[w] /\ live[o] /\
    \E a \in AllocIds, v \in PayloadVals, h \in HandlesOrNull, f \in Faults,
       x \in BOOLEAN :
        /\ MoveCtorAllocInputs(M, o, a, v, h, f, x)
        /\ LET r == MoveCtorAllocOp(M, w, o, a, v, h, f, x)
           IN  Commit("move_ctor_alloc", w, o, a, v, f, r, Born(w, r))

Dtor ==
    \E w \in Wrappers : live[w] /\
    \E f \in Faults :
        /\ DtorInputs(M, w, f)
        /\ LET r == DtorOp(M, w, f)
           IN  Commit("dtor", w, NoWrapper, alloc[w], 1, f, r,
                      [live EXCEPT ![w] = FALSE])

CopyAssign ==
    \E w, o \in Wrappers : live[w] /\ live[o] /\
    \E v \in PayloadVals, h \in HandlesOrNull, f \in Faults, x \in BOOLEAN :
        /\ CopyAssignInputs(M, w, o, v, h, f, x)
        /\ LET r == CopyAssignOp(M, w, o, propagate_on_container_copy_assignment,
                                 v, h, f, x)
           IN  Commit("copy_assign", w, o, alloc[o], v, f, r, live)

MoveAssign ==
    \E w, o \in Wrappers : live[w] /\ live[o] /\
    \E v \in PayloadVals, h \in HandlesOrNull, f \in Faults, x \in BOOLEAN :
        /\ MoveAssignInputs(M, w, o, v, h, f, x)
        /\ LET r == NoExcept(propagate_on_container_move_assignment,
                             MoveAssignOp(M, w, o,
                                          propagate_on_container_move_assignment,
                                          v, h, f, x))
           IN  Commit("move_assign", w, o, alloc[o], v, f, r, live)

ForwardAssign ==
    \E w \in Wrappers : live[w] /\
    \E v \in Values, h \in HandlesOrNull, f \in Faults, x \in BOOLEAN :
        /\ ForwardAssignInputs(M, w, h, f, x)
        /\ LET r == ForwardAssignOp(M, w, v, h, f, x)
           IN  Commit("forward_assign", w, NoWrapper, alloc[w], v, f, r, live)

Swap ==
    \E w, o \in Wrappers : live[w] /\ live[o] /\
        /\ propagate_on_container_swap \/ alloc[w] = alloc[o]
        /\ LET r == SwapOp(M, w, o, propagate_on_container_swap)
           IN  Commit("swap", w, o, alloc[o], 1, "none", r, live)

DerefWrite ==
    \E w \in Wrappers : live[w] /\ ~valueless_after_move(M, w) /\
    \E v \in Values :
        LET r == DerefWriteOp(M, w, v)
        IN  Commit("deref_write", w, NoWrapper, alloc[w], v, "none", r, live)

Init ==
    /\ live = [w \in Wrappers |-> FALSE]
    /\ p = [w \in Wrappers |-> NULL]
    /\ alloc = [w \in Wrappers |-> DEFAULT_ALLOCATOR_ID]
    /\ heap = [h \in Handles |-> FreeCell]
    /\ num_allocated = [i \in AllocIds |-> 0]
    /\ num_deallocated = [i \in AllocIds |-> 0]
    /\ policy \in Policies
    /\ nfaults = 0
    /\ nops = 0
    /\ dtor_threw = FALSE
    /\ last = [op |-> "init", dst |-> NoWrapper, src |-> NoWrapper,
               a |-> DEFAULT_ALLOCATOR_ID, v |-> 1, fault |-> "none",
               out |-> "ok", br |-> "init"]

\* the program runs until an exception leaves a noexcept function, for at
\* most MaxOps operations
Running == last.out # "terminate" /\ nops < MaxOps

Next ==
    /\ Running
    /\ \/ ValueCtor
       \/ ValueCtorAlloc
       \/ CopyCtor
       \/ CopyCtorAlloc
       \/ MoveCtor
       \/ MoveCtorAlloc
       \/ Dtor
       \/ CopyAssign
       \/ MoveAssign
       \/ ForwardAssign
       \/ Swap
       \/ DerefWrite

Spec == Init /\ [][Next]_vars

\* ------------------------------------------------------------ comparisons
\* SimpleType::operator==: two payloads are equal when their values are
PayloadEq(x, y) == x = y

\* the payload of a wrapper that owns one: the values *w can give
Deref(m, w) == Read(m, m.p[w])

\* operator==(const indirect& lhs, const indirect<U, AA>& rhs): the results
\* the call can give
operator_eq_ValuelessNeverEqual(m, lhs, rhs) ==
    IF valueless_after_move(m, lhs) \/ valueless_after_move(m, rhs)
    THEN {FALSE}
    ELSE {PayloadEq(x, y) : x \in Deref(m, lhs), y \in Deref(m, rhs)}

operator_eq(m, lhs, rhs) ==
    IF valueless_after_move(m, lhs) \/ valueless_after_move(m, rhs)
    THEN {valueless_after_move(m, lhs) = valueless_after_move(m, rhs)}
    ELSE {PayloadEq(x, y) : x \in Deref(m, lhs), y \in Deref(m, rhs)}

\* operator==(const indirect& lhs, const U& rhs)
operator_eq_value_NoValuelessTest(m, lhs, rhs) ==
    {PayloadEq(x, rhs) : x \in Deref(m, lhs)}

operator_eq_value(m, lhs, rhs) ==
    IF valueless_after_move(m, lhs)
    THEN {FALSE}
    ELSE {PayloadEq(x, rhs) : x \in Deref(m, lhs)}

\* the comparisons are const and noexcept-transparent: a step that runs one
\* changes no member, no storage and no counter, and records its result
Compared(op, w, o, v, res) ==
    /\ last' = [op |-> op, dst |-> w, src |-> o, v |-> v, res |-> res]
    /\ UNCHANGED <<live, p, alloc, heap, num_allocated, num_deallocated,
                   policy, nfaults, nops, dtor_threw>>

Equal ==
    \E w, o \in Wrappers : live[w] /\ live[o] /\
    \E res \in operator_eq(M, w, o) :
        Compared("eq", w, o, 1, res)

EqualValue ==
    \E w \in Wrappers : live[w] /\
    \E v \in PayloadVals :
    \E res \in operator_eq_value(M, w, v) :
        Compared("eq_value", w, NoWrapper, v, res)

\* synth-three-way on two payload values, by the payloads' own ordering
synth_three_way(x, y) ==
    IF x < y THEN "less" ELSE IF x = y THEN "equal" ELSE "greater"

\* bool <=> bool: false orders before true
bool_three_way(a, b) ==
    IF a = b THEN "equal" ELSE IF b THEN "less" ELSE "greater"

\* operator<=>(const indirect& lhs, const indirect<U, AA>& rhs)
operator_spaceship_ValuelessLast(m, lhs, rhs) ==
    IF valueless_after_move(m, lhs) \/ valueless_after_move(m, rhs)
    THEN {bool_three_way(valueless_after_move(m, lhs),
                         valueless_after_move(m, rhs))}
    ELSE {synth_three_way(x, y) : x \in Deref(m, lhs), y \in Deref(m, rhs)}

operator_spaceship(m, lhs, rhs) ==
    IF valueless_after_move(m, lhs) \/ valueless_after_move(m, rhs)
    THEN {bool_three_way(~valueless_after_move(m, lhs),
                         ~valueless_after_move(m, rhs))}
    ELSE {synth_three_way(x, y) : x \in Deref(m, lhs), y \in Deref(m, rhs)}

\* operator<=>(const indirect& lhs, const U& rhs)
operator_spaceship_value(m, lhs, rhs) ==
    IF valueless_after_move(m, lhs)
    THEN {"less"}
    ELSE {synth_three_way(x, rhs) : x \in Deref(m, lhs)}

ThreeWay ==
    \E w, o \in Wrappers : live[w] /\ live[o] /\
    \E res \in operator_spaceship(M, w, o) :
        Compared("three_way", w, o, 1, res)

ThreeWayValue ==
    \E w \in Wrappers : live[w] /\
    \E v \in PayloadVals :
    \E res \in operator_spaceship_value(M, w, v) :
        Compared("three_way_value", w, NoWrapper, v, res)

\* the wrapper states the comparisons are applied to: every wrapper is
\* alive, and is valueless or owns an object of its own, allocated through
\* its allocator
OwnCell(w, v, a) == [st |-> "obj", val |-> v, by |-> a]

InitCmp ==
    /\ live = [w \in Wrappers |-> TRUE]
    /\ p \in [Wrappers -> HandlesOrNull]
    /\ \A w \in Wrappers : p[w] \in {NULL, w}
    /\ alloc \in [Wrappers -> AllocIds]
    /\ \E vals \in [Wrappers -> PayloadVals] :
           heap = [h \in Handles |->
                     IF h \in Wrappers /\ p[h] = h
                     THEN OwnCell(h, vals[h], alloc[h])
                     ELSE FreeCell]
    /\ num_allocated =
           [i \in AllocIds |->
              Cardinality({w \in Wrappers : p[w] # NULL /\ alloc[w] = i})]
    /\ num_deallocated = [i \in AllocIds |-> 0]
    /\ policy \in Policies
    /\ nfaults = 0
    /\ nops = 0
    /\ dtor_threw = FALSE
    /\ last = [op |-> "init", dst |-> NoWrapper, src |-> NoWrapper,
               v |-> 1, res |-> FALSE]

NextCmp ==
    \/ Equal
    \/ EqualValue
    \/ ThreeWay
    \/ ThreeWayValue

SpecCmp == InitCmp /\ [][NextCmp]_vars


\* ============================================================= properties
Live == {w \in Wrappers : live[w]}

\* the last operation came back to its caller, normally or by an exception
Returned == last.out \in {"ok", "raise"}

RECURSIVE Total(_, _)
Total(n, ids) ==
    IF ids = {} THEN 0
    ELSE LET i == CHOOSE j \in ids : TRUE IN n[i] + Total(n, ids \ {i})

\* the state after ~indirect() has run, without throwing, on every wrapper
\* of ws
RECURSIVE DestroyAll(_, _)
DestroyAll(m, ws) ==
    IF ws = {} THEN m
    ELSE LET w == CHOOSE y \in ws : TRUE
         IN  DestroyAll(DtorOp(m, w, "none").m, ws \ {w})

\* C1: after every public operation, whether it completed or raised, no two
\* live wrappers hold the same non-empty storage handle.
C1_ExclusiveOwnership ==
    Returned =>
        \A w1, w2 \in Live : (w1 # w2 /\ p[w1] # NULL) => p[w1] # p[w2]

\* C2: when only allocation and payload construction may raise (T's
\* destructor never does), then once every wrapper has been destroyed the
\* allocate calls and the deallocate calls are equal in number.
C2_NoLeakAfterDestruction ==
    (Returned /\ Live = {} /\ ~dtor_threw) =>
        Total(num_allocated, AllocIds) = Total(num_deallocated, AllocIds)

\* C3: an operation in which allocate or T's constructor raised ends by
\* raising to its caller; it never completes normally.
C3_NeverSwallows ==
    last.fault \in {"alloc", "cons"} => last.out = "raise"

\* C4: after every public operation, whether it completed or raised, a live
\* wrapper's handle is non-empty only if it refers to storage that is
\* allocated and holds a constructed payload.
C4_ValuelessReflectsStorage ==
    Returned =>
        \A w \in Live : p[w] # NULL => heap[p[w]].st = "obj"


\* the members of every wrapper are what they were
SameMembers == p' = p /\ alloc' = alloc /\ live' = live

\* C5: after move-constructing w2 from w the source is valueless, w2 holds
\* the handle w held (valueless if w was), the payload is untouched and no
\* allocate or deallocate call is made.
C5_MoveEmptiesSource ==
    [][last'.op = "move_ctor" =>
          /\ p'[last'.src] = NULL
          /\ p'[last'.dst] = p[last'.src]
          /\ heap' = heap
          /\ num_allocated' = num_allocated
          /\ num_deallocated' = num_deallocated]_vars

C5_Witness ==
    /\ last.op = "move_ctor" /\ last.br = "steal"
    /\ p[last.src] = NULL
    /\ p[last.dst] # NULL /\ heap[p[last.dst]].st = "obj"

\* C6: a copy made from a non-valueless wrapper by copy construction or
\* copy assignment owns a handle distinct from the source's, holding an
\* equal payload; a write through one handle then leaves the other payload
\* as it is.
C6_CopyIndependence ==
    (/\ last.op \in {"copy_ctor", "copy_ctor_alloc", "copy_assign"}
     /\ last.out = "ok" /\ last.dst # last.src /\ p[last.src] # NULL) =>
        /\ p[last.dst] # NULL
        /\ p[last.dst] # p[last.src]
        /\ heap[p[last.dst]].val = heap[p[last.src]].val
        /\ \A v \in Values :
              DerefWriteOp(M, last.dst, v).m.heap[p[last.src]] = heap[p[last.src]]

\* C7: the plain copy constructor initializes the copy's allocator with
\* select_on_container_copy_construction of the source's allocator.
C7_CopyCtorSelectsOnCopy ==
    (last.op = "copy_ctor" /\ last.out = "ok") =>
        alloc[last.dst] = select_on_container_copy_construction(alloc[last.src])

\* C8: when allocate or T's copy constructor raises on copy assignment's
\* new-payload path, the exception reaches the caller, every wrapper keeps
\* its handle and allocator, and the heap is what it was before the call.
C8_CopyAssignStrongGuarantee ==
    [][(/\ last'.op = "copy_assign" /\ last'.br = "new"
        /\ last'.fault \in {"alloc", "cons"}) =>
          /\ last'.out = "raise"
          /\ SameMembers
          /\ heap' = heap]_vars

C8_Witness ==
    /\ last.op = "copy_assign" /\ last.br = "new" /\ last.fault = "cons"
    /\ last.out = "raise"
    /\ p[last.dst] # NULL /\ heap[p[last.dst]].st = "obj"
    /\ propagate_on_container_copy_assignment
    /\ alloc[last.dst] # alloc[last.src]

\* C9: a move assignment between distinct wrappers that completes leaves
\* the source valueless, whichever branch it took.
C9_MoveAssignEmptiesSource ==
    (last.op = "move_assign" /\ last.out = "ok" /\ last.dst # last.src) =>
        p[last.src] = NULL

C9_Witness ==
    /\ last.op = "move_assign" /\ last.out = "ok" /\ last.br = "equal"
    /\ p[last.src] = NULL
    /\ p[last.dst] # NULL /\ heap[p[last.dst]].st = "obj"
    /\ num_deallocated[alloc[last.dst]] > 0

\* C10: when allocate or T's move constructor raises in the unequal-allocator
\* branch of move assignment, every wrapper keeps its handle and allocator,
\* and the same storage is allocated as before the call.
C10_MoveAssignErrorGuarantee ==
    [][(/\ last'.op = "move_assign" /\ last'.br = "unequal"
        /\ last'.fault \in {"alloc", "cons"}) =>
          /\ SameMembers
          /\ \A h \in Handles : /\ heap'[h].st = heap[h].st
                                /\ heap'[h].by = heap[h].by]_vars

C10_Witness ==
    /\ last.op = "move_assign" /\ last.br = "unequal" /\ last.fault = "cons"
    /\ last.out = "raise"
    /\ p[last.src] # NULL /\ heap[p[last.src]].st = "obj"
    /\ p[last.dst] # NULL /\ heap[p[last.dst]].st = "obj"

\* C11: when the allocator-extended move constructor, given an allocator
\* unequal to the source's, raises because allocate or T's move constructor
\* raised, the source still owns its original object, not destroyed.
C11_MoveCtorAllocFailureKeepsSource ==
    [][(/\ last'.op = "move_ctor_alloc" /\ last'.br = "unequal"
        /\ last'.fault \in {"alloc", "cons"} /\ last'.out = "raise") =>
          /\ p'[last'.src] = p[last'.src]
          /\ heap'[p[last'.src]].st = "obj"]_vars

\* C12: the allocator-extended move constructor, given an allocator unequal
\* to that of a non-valueless source, leaves the source valueless on every
\* exit path, with the source's storage released; when T's destructor did
\* not raise, the source's allocator has seen exactly one deallocate call.
C12_MoveCtorAllocSourceValueless ==
    [][(last'.op = "move_ctor_alloc" /\ last'.br = "unequal") =>
          /\ p'[last'.src] = NULL
          /\ heap'[p[last'.src]].st = "free"
          /\ last'.fault \in {"none", "alloc", "cons"} =>
                num_deallocated'[alloc[last'.src]] =
                    num_deallocated[alloc[last'.src]] + 1]_vars

C12_Witness ==
    /\ last.op = "move_ctor_alloc" /\ last.br = "unequal"
    /\ last.fault = "alloc" /\ last.out = "raise"
    /\ live[last.src] /\ p[last.src] = NULL
    /\ num_deallocated[alloc[last.src]] = 1

\* C13: a completed copy assignment between non-valueless wrappers with
\* unequal allocators and no propagation on copy assignment keeps the
\* target's allocator, makes *target equal to *source, adds exactly one
\* allocate and one deallocate call to the target's allocator and none to
\* the source's.
C13_CopyAssignUnequalNoPropagation ==
    [][(/\ last'.op = "copy_assign" /\ last'.out = "ok"
        /\ last'.dst # last'.src
        /\ p[last'.dst] # NULL /\ p[last'.src] # NULL
        /\ alloc[last'.dst] # alloc[last'.src]
        /\ ~propagate_on_container_copy_assignment) =>
          LET t == last'.dst
              o == last'.src
          IN  /\ alloc'[t] = alloc[t]
              /\ p'[t] # NULL /\ p'[o] # NULL
              /\ heap'[p'[t]].val = heap'[p'[o]].val
              /\ num_allocated'[alloc[t]] = num_allocated[alloc[t]] + 1
              /\ num_deallocated'[alloc[t]] = num_deallocated[alloc[t]] + 1
              /\ num_allocated'[alloc[o]] = num_allocated[alloc[o]]
              /\ num_deallocated'[alloc[o]] = num_deallocated[alloc[o]]]_vars

\* C14: a completed copy assignment between non-valueless wrappers with
\* equal allocators makes no allocate and no deallocate call, leaves the
\* target's pointer as it is, and makes *target equal to *source.
C14_CopyAssignReusesStorage ==
    [][(/\ last'.op = "copy_assign" /\ last'.out = "ok"
        /\ last'.dst # last'.src
        /\ p[last'.dst] # NULL /\ p[last'.src] # NULL
        /\ alloc[last'.dst] = alloc[last'.src]) =>
          /\ num_allocated' = num_allocated
          /\ num_deallocated' = num_deallocated
          /\ p'[last'.dst] = p[last'.dst]
          /\ heap'[p'[last'.dst]].val = heap'[p'[last'.src]].val]_vars

\* C15 as stated: a copy or move assignment between two distinct wrappers
\* with equal allocators makes no allocate call, whichever of the two is
\* valueless.
C15_EqualAllocatorsNeverAllocate ==
    [][(/\ last'.op \in {"copy_assign", "move_assign"}
        /\ last'.dst # last'.src
        /\ alloc[last'.dst] = alloc[last'.src]) =>
          num_allocated' = num_allocated]_vars

\* C15 amended: such an assignment makes no allocate call, except a copy
\* assignment from a non-valueless source to a valueless target, which
\* makes at most one, and exactly one, on the common allocator, when it
\* completes.
C15_EqualAllocatorsFastPath ==
    [][(/\ last'.op \in {"copy_assign", "move_assign"}
        /\ last'.dst # last'.src
        /\ alloc[last'.dst] = alloc[last'.src]) =>
          IF /\ last'.op = "copy_assign"
             /\ p[last'.src] # NULL /\ p[last'.dst] = NULL
          THEN LET a == alloc[last'.dst] IN
               /\ \A i \in AllocIds \ {a} : num_allocated'[i] = num_allocated[i]
               /\ num_allocated'[a] \in {num_allocated[a], num_allocated[a] + 1}
               /\ last'.out = "ok" => num_allocated'[a] = num_allocated[a] + 1
          ELSE num_allocated' = num_allocated]_vars

\* a copy assignment into a valueless target with an equal allocator (no
\* propagation, so the allocators were equal before) that built a new object
C15_Witness ==
    /\ last.op = "copy_assign" /\ last.br = "new" /\ last.out = "ok"
    /\ last.dst # last.src
    /\ ~propagate_on_container_copy_assignment
    /\ alloc[last.dst] = alloc[last.src]
    /\ p[last.dst] # NULL /\ heap[p[last.dst]].st = "obj"
    /\ p[last.src] # NULL /\ p[last.src] # p[last.dst]

\* C16: a completed copy or move assignment from a valueless source to
\* another wrapper makes no allocate call and leaves both wrappers
\* valueless; the target's previous storage, if any, is released by exactly
\* one deallocate call on the target's previous allocator; a target that
\* was already valueless sees no destroy and no deallocate call.
C16_AssignFromValueless ==
    [][(/\ last'.op \in {"copy_assign", "move_assign"} /\ last'.out = "ok"
        /\ last'.dst # last'.src /\ p[last'.src] = NULL) =>
          LET t == last'.dst IN
          /\ p'[t] = NULL /\ p'[last'.src] = NULL
          /\ num_allocated' = num_allocated
          /\ IF p[t] = NULL
             THEN num_deallocated' = num_deallocated /\ heap' = heap
             ELSE /\ heap'[p[t]].st = "free"
                  /\ \A h \in Handles \ {p[t]} : heap'[h] = heap[h]
                  /\ num_deallocated'[alloc[t]] = num_deallocated[alloc[t]] + 1
                  /\ \A i \in AllocIds \ {alloc[t]} :
                        num_deallocated'[i] = num_deallocated[i]]_vars

C16_Witness ==
    /\ last.op \in {"copy_assign", "move_assign"}
    /\ last.br = "src_valueless" /\ last.out = "ok" /\ last.dst # last.src
    /\ p[last.dst] = NULL /\ p[last.src] = NULL
    /\ Total(num_allocated, AllocIds) = 1
    /\ Total(num_deallocated, AllocIds) = 1

\* C17: after a completed copy (move) assignment between distinct wrappers
\* the target's allocator is the source's if propagate_on_container_copy
\* (move)_assignment is true and the target's previous one if it is false;
\* the source's allocator is unchanged.
C17_AllocatorPropagationOnAssignment ==
    [][(/\ last'.op \in {"copy_assign", "move_assign"} /\ last'.out = "ok"
        /\ last'.dst # last'.src) =>
          LET flag == IF last'.op = "copy_assign"
                      THEN propagate_on_container_copy_assignment
                      ELSE propagate_on_container_move_assignment
          IN  /\ alloc'[last'.dst] = IF flag THEN alloc[last'.src]
                                     ELSE alloc[last'.dst]
              /\ alloc'[last'.src] = alloc[last'.src]]_vars

C17_Witness ==
    /\ last.op = "move_assign" /\ last.br = "unequal" /\ last.out = "ok"
    /\ propagate_on_container_move_assignment
    /\ alloc[last.dst] = alloc[last.src]
    /\ p[last.dst] # NULL /\ heap[p[last.dst]].by = alloc[last.dst]

\* C18: a completed move assignment from a non-valueless source with an
\* equal allocator makes no allocate call and hands the source's pointer to
\* the target; the object the target owned is released by exactly one
\* deallocate call; a target that was valueless sees no destroy and no
\* deallocate call at all.
C18_MoveAssignEqualAdoptsStorage ==
    [][(/\ last'.op = "move_assign" /\ last'.out = "ok"
        /\ last'.dst # last'.src /\ p[last'.src] # NULL
        /\ alloc[last'.dst] = alloc[last'.src]) =>
          LET t == last'.dst IN
          /\ p'[t] = p[last'.src]
          /\ num_allocated' = num_allocated
          /\ IF p[t] = NULL
             THEN num_deallocated' = num_deallocated /\ heap' = heap
             ELSE /\ heap'[p[t]].st = "free"
                  /\ num_deallocated'[alloc[t]] = num_deallocated[alloc[t]] + 1
                  /\ \A i \in AllocIds \ {alloc[t]} :
                        num_deallocated'[i] = num_deallocated[i]]_vars

\* C19: a completed move assignment from a non-valueless source with an
\* unequal allocator makes exactly one allocate call, on the source's
\* allocator if propagate_on_container_move_assignment is true and on the
\* target's otherwise; the source's object and the target's old object, if
\* any, are each released by one deallocate call on their own allocator;
\* afterwards *target is the value *source had.
C19_MoveAssignUnequalBuildsNew ==
    [][(/\ last'.op = "move_assign" /\ last'.out = "ok"
        /\ last'.dst # last'.src /\ p[last'.src] # NULL
        /\ alloc[last'.dst] # alloc[last'.src]) =>
          LET t  == last'.dst
              o  == last'.src
              id == IF propagate_on_container_move_assignment
                    THEN alloc[o] ELSE alloc[t]
          IN  /\ num_allocated'[id] = num_allocated[id] + 1
              /\ \A i \in AllocIds \ {id} : num_allocated'[i] = num_allocated[i]
              /\ num_deallocated'[alloc[o]] = num_deallocated[alloc[o]] + 1
              /\ num_deallocated'[alloc[t]] =
                    num_deallocated[alloc[t]] + (IF p[t] = NULL THEN 0 ELSE 1)
              /\ heap'[p[o]].st = "free"
              /\ p[t] # NULL => heap'[p[t]].st = "free"
              /\ p'[t] # NULL
              /\ heap'[p'[t]] = [st |-> "obj", val |-> heap[p[o]].val, by |-> id]]_vars

\* C20: copy-assigning or move-assigning a wrapper to itself completes and
\* changes no pointer, no allocator and nothing on the heap, and makes no
\* allocate and no deallocate call.
C20_SelfAssignmentNoOp ==
    [][(/\ last'.op \in {"copy_assign", "move_assign"}
        /\ last'.dst = last'.src) =>
          /\ last'.out = "ok"
          /\ SameMembers
          /\ heap' = heap
          /\ num_allocated' = num_allocated
          /\ num_deallocated' = num_deallocated]_vars

C20_Witness ==
    /\ last.op = "move_assign" /\ last.br = "self" /\ last.dst = last.src
    /\ p[last.dst] # NULL /\ heap[p[last.dst]].st = "obj"

\* C21: a completed forwarding assignment of v to a valueless wrapper makes
\* exactly one allocate call, on the wrapper's allocator, and leaves it
\* owning an object equal to v; to a non-valueless wrapper it makes no
\* allocate and no deallocate call, keeps the pointer and leaves *p equal to
\* v.  The allocator is unchanged either way, and when allocate or T's
\* constructor raises in the valueless case the wrapper stays valueless and
\* no storage stays allocated.
C21_ForwardingAssign ==
    [][last'.op = "forward_assign" =>
          LET w == last'.dst
              a == alloc[w]
          IN  /\ alloc' = alloc
              /\ (last'.out = "ok" /\ p[w] = NULL) =>
                    /\ num_allocated'[a] = num_allocated[a] + 1
                    /\ \A i \in AllocIds \ {a} :
                          num_allocated'[i] = num_allocated[i]
                    /\ num_deallocated' = num_deallocated
                    /\ p'[w] # NULL
                    /\ heap'[p'[w]] = [st |-> "obj", val |-> last'.v, by |-> a]
              /\ (last'.out = "ok" /\ p[w] # NULL) =>
                    /\ num_allocated' = num_allocated
                    /\ num_deallocated' = num_deallocated
                    /\ p'[w] = p[w]
                    /\ heap'[p[w]].st = "obj" /\ heap'[p[w]].val = last'.v
              /\ (last'.fault \in {"alloc", "cons"} /\ p[w] = NULL) =>
                    /\ last'.out = "raise"
                    /\ p'[w] = NULL
                    /\ heap' = heap]_vars

\* C22: swap exchanges the two pointers, valueless or not, and nothing
\* else: the heap and every allocate and deallocate count are unchanged,
\* no other wrapper is touched, and a wrapper swapped with itself keeps its
\* pointer and its allocator.
C22_SwapExchangesHandles ==
    [][last'.op = "swap" =>
          LET w == last'.dst
              o == last'.src
          IN  /\ last'.out = "ok"
              /\ p'[w] = p[o] /\ p'[o] = p[w]
              /\ \A y \in Wrappers \ {w, o} : p'[y] = p[y] /\ alloc'[y] = alloc[y]
              /\ heap' = heap
              /\ num_allocated' = num_allocated
              /\ num_deallocated' = num_deallocated
              /\ live' = live
              /\ w = o => alloc'[w] = alloc[w]]_vars

C22_Witness ==
    /\ last.op = "swap" /\ last.dst # last.src
    /\ p[last.src] = NULL
    /\ p[last.dst] # NULL /\ heap[p[last.dst]].st = "obj"
    /\ Total(num_allocated, AllocIds) = 1
    /\ Total(num_deallocated, AllocIds) = 0

C24_WrapperEquality ==
    last.op = "eq" =>
        LET w == last.dst
            o == last.src
        IN  /\ last.res = IF p[w] = NULL \/ p[o] = NULL
                          THEN p[w] = NULL /\ p[o] = NULL
                          ELSE PayloadEq(heap[p[w]].val, heap[p[o]].val)
            /\ operator_eq(M, o, w) = {last.res}

\* two distinct valueless wrappers have been compared, and compared equal
C24_Witness ==
    /\ last.op = "eq"
    /\ last.dst # last.src
    /\ p[last.dst] = NULL /\ p[last.src] = NULL
    /\ last.res = TRUE

\* C25: a valueless wrapper never compares equal to a raw value; a wrapper
\* that owns a payload compares equal to a raw value exactly when the
\* payload equals the value.
C25_ValueEquality ==
    last.op = "eq_value" =>
        LET w == last.dst
        IN  last.res = IF p[w] = NULL
                       THEN FALSE
                       ELSE PayloadEq(heap[p[w]].val, last.v)

\* a valueless wrapper has been compared with a raw value
C25_Witness ==
    /\ last.op = "eq_value"
    /\ p[last.dst] = NULL
    /\ last.res = FALSE

\* C26: in a three-way comparison a valueless wrapper orders before every
\* wrapper that owns a payload and equal to another valueless wrapper, two
\* wrappers that own payloads order as their payloads do, a valueless
\* wrapper orders less than every raw value, and a wrapper that owns a
\* payload orders against a raw value as its payload does.
C26_ThreeWayOrdering ==
    /\ last.op = "three_way" =>
           LET w == last.dst
               o == last.src
           IN  last.res =
                   IF p[w] = NULL /\ p[o] = NULL THEN "equal"
                   ELSE IF p[w] = NULL THEN "less"
                   ELSE IF p[o] = NULL THEN "greater"
                   ELSE synth_three_way(heap[p[w]].val, heap[p[o]].val)
    /\ last.op = "three_way_value" =>
           LET w == last.dst
           IN  last.res = IF p[w] = NULL
                          THEN "less"
                          ELSE synth_three_way(heap[p[w]].val, last.v)

\* a valueless wrapper has been ordered against one that owns a payload
C26_Witness ==
    /\ last.op = "three_way"
    /\ p[last.dst] = NULL /\ p[last.src] # NULL
    /\ last.res = "less"

\* C27: a move construction with an explicit allocator that completes
\* leaves the new wrapper with the supplied allocator and the source
\* valueless.  With an allocator equal to the source's the source's pointer
\* is adopted and nothing is allocated or released; with an unequal one and
\* a source that owns an object there is exactly one allocation through the
\* supplied allocator, the new payload is move-constructed from *source, and
\* the source's storage is destroyed and released exactly once through the
\* source's allocator; with a valueless source the new wrapper is valueless
\* and nothing is allocated.
C27_MoveCtorAllocCompletes ==
    [][last'.op = "move_ctor_alloc" /\ last'.out = "ok" =>
          LET w == last'.dst
              o == last'.src
              a == last'.a
          IN  /\ alloc'[w] = a
              /\ p'[o] = NULL
              /\ a = alloc[o] =>
                     /\ p'[w] = p[o]
                     /\ heap' = heap
                     /\ num_allocated' = num_allocated
                     /\ num_deallocated' = num_deallocated
              /\ a # alloc[o] /\ p[o] # NULL =>
                     /\ num_allocated' = [num_allocated EXCEPT ![a] = @ + 1]
                     /\ num_deallocated' =
                            [num_deallocated EXCEPT ![alloc[o]] = @ + 1]
                     /\ p'[w] # NULL
                     /\ heap'[p'[w]] = [st |-> "obj", val |-> last'.v, by |-> a]
                     /\ last'.v \in Read(M, p[o])
                     /\ heap'[p[o]] = FreeCell
              /\ a # alloc[o] /\ p[o] = NULL =>
                     /\ p'[w] = NULL
                     /\ heap' = heap
                     /\ num_allocated' = num_allocated
                     /\ num_deallocated' = num_deallocated]_vars

\* C28: every value constructor that completes (default, forwarding, in
\* place, with or without an initializer list, with or without an explicit
\* allocator) leaves a wrapper that owns a payload equal to T(args), has made
\* exactly one allocation, through the wrapper's allocator, which is the
\* supplied one or else a default-constructed one, and get_allocator()
\* returns that allocator.
C28_ValueCtorRoundTrip ==
    [][last'.op \in {"value_ctor", "value_ctor_alloc"} /\ last'.out = "ok" =>
          LET w == last'.dst
              a == IF last'.op = "value_ctor"
                   THEN DEFAULT_ALLOCATOR_ID ELSE last'.a
          IN  /\ ~valueless_after_move(M', w)
              /\ heap'[p'[w]] = [st |-> "obj", val |-> last'.v, by |-> a]
              /\ Read(M', p'[w]) = {last'.v}
              /\ num_allocated' = [num_allocated EXCEPT ![a] = @ + 1]
              /\ num_deallocated' = num_deallocated
              /\ get_allocator(M', w) = a]_vars

\* a wrapper has been value-constructed with an explicit allocator that is
\* not the default one
C28_Witness ==
    /\ last.op = "value_ctor_alloc"
    /\ last.out = "ok"
    /\ last.a # DEFAULT_ALLOCATOR_ID
    /\ p[last.dst] # NULL
    /\ num_allocated[last.a] > 0

\* C29: a copy construction with an explicit allocator that completes gives
\* the new wrapper the supplied allocator; from a valueless source the new
\* wrapper is valueless and nothing is allocated; otherwise exactly one
\* allocation is made, through the supplied allocator and none through the
\* source's, and the new payload is a deep copy of *source: equal to it, in
\* storage of its own, with the source left as it was.
C29_CopyCtorAlloc ==
    [][last'.op = "copy_ctor_alloc" /\ last'.out = "ok" =>
          LET w == last'.dst
              o == last'.src
              a == last'.a
          IN  /\ alloc'[w] = a
              /\ p'[o] = p[o] /\ alloc'[o] = alloc[o]
              /\ num_deallocated' = num_deallocated
              /\ p[o] = NULL =>
                     /\ p'[w] = NULL
                     /\ heap' = heap
                     /\ num_allocated' = num_allocated
              /\ p[o] # NULL =>
                     /\ num_allocated' = [num_allocated EXCEPT ![a] = @ + 1]
                     /\ p'[w] \notin {NULL, p[o]}
                     /\ heap'[p'[w]] = [st |-> "obj", val |-> last'.v, by |-> a]
                     /\ heap'[p[o]] = heap[p[o]]
                     /\ Read(M, p[o]) = {last'.v}]_vars

\* C30: destroying a wrapper that owns a payload destroys the payload and
\* releases its storage exactly once, through the wrapper's allocator;
\* destroying a valueless wrapper makes no destroy and no release call.
\* Consequently, in a run in which nothing has thrown, destroying every
\* wrapper after any sequence of operations leaves the number of allocate
\* calls equal to the number of deallocate calls.
C30_Destruction ==
    [][/\ last'.op = "dtor" /\ last'.out = "ok" =>
              LET w == last'.dst IN
              /\ num_allocated' = num_allocated
              /\ p[w] # NULL =>
                     /\ heap[p[w]].st = "obj"
                     /\ heap' = [heap EXCEPT ![p[w]] = FreeCell]
                     /\ num_deallocated' =
                            [num_deallocated EXCEPT ![alloc[w]] = @ + 1]
              /\ p[w] = NULL =>
                     /\ heap' = heap
                     /\ num_deallocated' = num_deallocated
       /\ nfaults' = 0 =>
              LET m == DestroyAll(M', Live')
              IN  Total(m.na, AllocIds) = Total(m.nd, AllocIds)]_vars

\* C31: an operation that moves from a wrapper (the move constructor, the
\* move constructor with an explicit allocator, move assignment with the
\* wrapper as source) never changes that wrapper's allocator: get_allocator()
\* on the moved-from wrapper returns what it returned before.
C31_AllocatorPersists ==
    [][last'.op \in {"move_ctor", "move_ctor_alloc", "move_assign"} =>
          LET o == last'.src
          IN  /\ live'[o]
              /\ get_allocator(M', o) = get_allocator(M, o)]_vars

\* a wrapper with a non-default allocator has been moved from and is
\* valueless
C31_Witness ==
    /\ last.op = "move_ctor"
    /\ p[last.src] = NULL
    /\ p[last.dst] # NULL
    /\ alloc[last.src] # DEFAULT_ALLOCATOR_ID

\* C32: when the destruction of a payload raises inside a public operation
\* and the error reaches the caller, every address that is allocated is the
\* pointer of a live wrapper: nothing is left allocated and unowned, a newly
\* built payload in particular.
C32_NoLeakWhenTeardownFails ==
    (last.fault \in {"dtor_other", "dtor_this"} /\ last.out = "raise") =>
        \A h \in Handles :
            heap[h].st # "free" => \E w \in Live : p[w] = h

\* C34: unchecked_destroy_and_deallocate releases the storage exactly once on
\* every exit path: when destroy raises the storage is released before the
\* error leaves, and when destroy returns the guard does not release a
\* second time.
C34_ReleaseExactlyOnce ==
    [][/\ \A w \in Live', throws \in BOOLEAN :
              p'[w] # NULL =>
                  LET r == unchecked_destroy_and_deallocate(M', w, throws)
                  IN  /\ r.ok = ~throws
                      /\ r.m.nd = [num_deallocated' EXCEPT ![alloc'[w]] = @ + 1]
                      /\ r.m.na = num_allocated'
                      /\ r.m.heap = [heap' EXCEPT ![p'[w]] = FreeCell]
       /\ (last'.op = "dtor" \/
           (last'.op = "copy_assign" /\ last'.br = "src_valueless")) =>
              LET w == last'.dst
              IN  p[w] # NULL =>
                      /\ last'.out = IF last'.fault = "none" THEN "ok"
                                     ELSE IF last'.op = "dtor" THEN "terminate"
                                     ELSE "raise"
                      /\ num_deallocated' =
                             [num_deallocated EXCEPT ![alloc[w]] = @ + 1]
                      /\ heap' = [heap EXCEPT ![p[w]] = FreeCell]]_vars

\* destroy has raised inside unchecked_destroy_and_deallocate, the error has
\* reached the caller of the assignment, and the storage has been released
C34_Witness ==
    /\ last.op = "copy_assign"
    /\ last.br = "src_valueless"
    /\ last.fault = "dtor_this"
    /\ last.out = "raise"
    /\ p[last.dst] # NULL
    /\ heap[p[last.dst]].st = "free"
    /\ num_deallocated[alloc[last.dst]] = 1

\* C35: allocate_and_construct allocates one unit and then constructs in it;
\* when the construction raises, the unit just allocated is released through
\* the same allocator before the error leaves; the helper does not modify
\* the wrapper's pointer, whether it returns or raises.
C35_AllocateAndConstruct ==
    [][/\ \A id \in AllocIds, h \in Allocatable(M'), v \in Values,
             f \in {"none", "alloc", "cons"} :
              LET r == allocate_and_construct(M', id, h, v, f)
              IN  /\ r.m.p = p' /\ r.m.alloc = alloc'
                  /\ r.ok = (f = "none")
                  /\ f = "none" =>
                         /\ r.ptr = h
                         /\ r.m.na = [num_allocated' EXCEPT ![id] = @ + 1]
                         /\ r.m.nd = num_deallocated'
                         /\ r.m.heap =
                                [heap' EXCEPT
                                   ![h] = [st |-> "obj", val |-> v, by |-> id]]
                  /\ f = "cons" =>
                         /\ r.m.na = [num_allocated' EXCEPT ![id] = @ + 1]
                         /\ r.m.nd = [num_deallocated' EXCEPT ![id] = @ + 1]
                         /\ r.m.heap = heap'
                  /\ f = "alloc" => r.m = M'
       /\ (last'.op = "value_ctor_alloc" /\ last'.fault = "cons") =>
              /\ last'.out = "raise"
              /\ p' = p
              /\ heap' = heap
              /\ num_allocated' = [num_allocated EXCEPT ![last'.a] = @ + 1]
              /\ num_deallocated' =
                     [num_deallocated EXCEPT ![last'.a] = @ + 1]]_vars

\* T's constructor has raised inside a construction with a non-default
\* allocator, and the unit allocated for it has been released through that
\* allocator
C35_Witness ==
    /\ last.op = "value_ctor_alloc"
    /\ last.fault = "cons"
    /\ last.out = "raise"
    /\ last.a # DEFAULT_ALLOCATOR_ID
    /\ num_allocated[last.a] = 1
    /\ num_deallocated[last.a] = 1

\* C36: on the path of copy assignment that builds a new payload, the new
\* payload is allocated and constructed before the target's old payload is
\* destroyed or released, and the target's allocator is replaced (when
\* propagation requires it) only after the old payload has been released
\* through the old allocator.  In a step: when building the new payload
\* raises, the old payload, the pointers and the allocators are untouched;
\* when destroying the old payload raises, the new one has already been
\* allocated and the allocator is not yet replaced; the old storage is
\* always released through the allocator the target had before; and a new
\* payload that replaces a real old one lies at another address.
C36_CopyAssignOrdering ==
    [][last'.op = "copy_assign" /\ last'.br = "new" =>
          LET w  == last'.dst
              o  == last'.src
              id == IF propagate_on_container_copy_assignment
                    THEN alloc[o] ELSE alloc[w]
              released == IF p[w] = NULL THEN num_deallocated
                          ELSE [num_deallocated EXCEPT ![alloc[w]] = @ + 1]
          IN  /\ last'.fault \in {"alloc", "cons"} =>
                     /\ last'.out = "raise"
                     /\ heap' = heap /\ p' = p /\ alloc' = alloc
              /\ last'.fault = "dtor_this" =>
                     /\ last'.out = "raise"
                     /\ num_allocated' = [num_allocated EXCEPT ![id] = @ + 1]
                     /\ num_deallocated' = released
                     /\ alloc' = alloc
              /\ last'.out = "ok" =>
                     /\ num_allocated' = [num_allocated EXCEPT ![id] = @ + 1]
                     /\ num_deallocated' = released
                     /\ alloc' = [alloc EXCEPT ![w] = id]
                     /\ (p[w] # NULL /\ heap[p[w]].st = "obj") =>
                            /\ p'[w] \notin {NULL, p[w]}
                            /\ heap'[p'[w]].st = "obj"
                            /\ heap'[p[w]] = FreeCell]_vars

\* a copy assignment with propagation has replaced an owned payload: the new
\* one was allocated through the source's allocator, the old one released
\* through the allocator the target had before
C36_Witness ==
    /\ last.op = "copy_assign"
    /\ last.br = "new"
    /\ last.out = "ok"
    /\ propagate_on_container_copy_assignment
    /\ alloc[last.dst] = alloc[last.src]
    /\ num_allocated[alloc[last.dst]] = 2
    /\ num_deallocated[alloc[last.dst]] = 0
    /\ \E i \in AllocIds \ {alloc[last.dst]} :
           num_allocated[i] = 1 /\ num_deallocated[i] = 1

\* C37: destroy and deallocate are only ever called on a non-null pointer
\* whose storage is allocated at the time, never on a null pointer and never
\* twice for one allocation: for every allocator the deallocate calls
\* account exactly for the units it allocated that are no longer allocated,
\* and so never outnumber its allocate calls.
C37_ReleaseOnlyAllocated ==
    \A i \in AllocIds :
        /\ num_deallocated[i] <= num_allocated[i]
        /\ num_allocated[i] - num_deallocated[i] =
               Cardinality({h \in Handles :
                               heap[h].st # "free" /\ heap[h].by = i})

\* C38: in a run in which nothing has thrown, every unit of storage is
\* released through an allocator equal to the one that allocated it, and
\* every wrapper that is not valueless has an allocator equal to the one
\* that allocated the storage it holds.
C38_AllocatorMatchesStorage ==
    [][nfaults' = 0 =>
          /\ \A w \in Live' :
                 p'[w] # NULL =>
                     /\ heap'[p'[w]].st = "obj"
                     /\ heap'[p'[w]].by = alloc'[w]
          /\ \A i \in AllocIds :
                 num_deallocated'[i] - num_deallocated[i] >=
                     Cardinality({h \in Handles :
                                     /\ heap[h].st # "free"
                                     /\ heap[h].by = i
                                     /\ heap'[h].st = "free"})]_vars

\* in a run without failures a move assignment between unequal allocators
\* without propagation has built the target's new payload through the
\* target's allocator and released the source's storage through the source's
C38_Witness ==
    /\ nfaults = 0
    /\ last.op = "move_assign"
    /\ last.br = "unequal"
    /\ last.out = "ok"
    /\ ~propagate_on_container_move_assignment
    /\ alloc[last.dst] # alloc[last.src]
    /\ p[last.dst] # NULL
    /\ heap[p[last.dst]].by = alloc[last.dst]
    /\ num_deallocated[alloc[last.src]] = 1

\* C39: copy construction, with or without an explicit allocator, and copy
\* assignment never change their source, whether they complete or raise: its
\* pointer, its payload, whether it is valueless, and its allocator are
\* afterwards what they were before.
C39_CopyLeavesSourceUntouched ==
    [][last'.op \in {"copy_ctor", "copy_ctor_alloc", "copy_assign"} =>
          LET o == last'.src
          IN  /\ live'[o]
              /\ p'[o] = p[o]
              /\ alloc'[o] = alloc[o]
              /\ p[o] # NULL => heap'[p[o]] = heap[p[o]]]_vars

\* C40: when the allocator propagates on move assignment, for which move
\* assignment is declared noexcept, no move assignment reaches an allocation
\* or a construction of a payload, the steps that can raise, not even one
\* between unequal allocators from a source that owns a payload.
C40_NoexceptMoveAssignNeverAllocates ==
    [][(last'.op = "move_assign" /\ propagate_on_container_move_assignment) =>
          /\ num_allocated' = num_allocated
          /\ last'.fault \notin {"alloc", "cons"}]_vars

====
